---- MODULE Spec2Model ----
(***************************************************************************)
(* Model of src/utils/truncate.ts: the truncation utilities that shrink    *)
(* captured network data (strings, JSON values, response bodies, network   *)
(* entries, header maps).                                                  *)
(*                                                                         *)
(* A JavaScript string is a sequence of one-character strings.  The        *)
(* functions are pure; the state machine is a caller that invokes one      *)
(* function on an input drawn from a bounded set, holds the result         *)
(* (pc = "done") and discards it again (pc = "idle").                      *)
(***************************************************************************)
EXTENDS Integers, Sequences, FiniteSets, TLC

VARIABLES pc, op, arg, out

vars == <<pc, op, arg, out>>

(* ------------------------------ bounds --------------------------------- *)

MaxStrLen == 24
MaxBudget == 20
FullBudget == 1000000
LongLen == 600
MaxWidth == 2
MaxDigits == 9
LongBody == 120
Base64Margin == 6
SizeMargin == 3

(* -------------------------- program constants -------------------------- *)

DEFAULT_MAX_STRING_LENGTH == 500

(* ------------------------------ strings -------------------------------- *)

Max(a, b) == IF a >= b THEN a ELSE b

Min(a, b) == IF a <= b THEN a ELSE b

\* String.prototype.slice(from, to) for 0 <= from, 0 <= to (0-based, end exclusive)
Slice(s, from, to) == SubSeq(s, from + 1, Min(to, Len(s)))

\* The character c repeated n times
Rep(c, n) == [i \in 1..n |-> c]

DigitChars == <<"0", "1", "2", "3", "4", "5", "6", "7", "8", "9">>

\* Number-to-string conversion of a non-negative integer inside a template literal
RECURSIVE NumToStr(_)
NumToStr(n) ==
  IF n < 10 THEN <<DigitChars[n + 1]>>
  ELSE NumToStr(n \div 10) \o <<DigitChars[(n % 10) + 1]>>

IsDigit(c) == c \in {DigitChars[i] : i \in 1..10}

DigitValue(c) == (CHOOSE i \in 1..10 : DigitChars[i] = c) - 1

\* The number a string of decimal digits denotes
RECURSIVE StrToNat(_)
StrToNat(ds) ==
  IF ds = <<>> THEN 0
  ELSE 10 * StrToNat(SubSeq(ds, 1, Len(ds) - 1)) + DigitValue(ds[Len(ds)])

\* The template literal `...[+${remaining} chars]`
Indicator(remaining) ==
  <<".", ".", ".", "[", "+">> \o NumToStr(remaining) \o <<" ", "c", "h", "a", "r", "s", "]">>

\* Faulty variant: the boundary test is strict
truncateString_strict(str, maxLength) ==
  IF Len(str) < maxLength
  THEN [value |-> str, truncated |-> FALSE, originalLength |-> Len(str)]
  ELSE LET remaining == Len(str) - maxLength
           indicatorLength == Len(Indicator(remaining))
           truncateAt == Max(0, maxLength - indicatorLength)
           truncatedValue == Slice(str, 0, truncateAt) \o Indicator(remaining)
       IN  [value |-> truncatedValue, truncated |-> TRUE, originalLength |-> Len(str)]

\* Faulty variant: the indicator counts the characters after the cut, not after maxLength
truncateString_cutcount(str, maxLength) ==
  IF Len(str) <= maxLength
  THEN [value |-> str, truncated |-> FALSE, originalLength |-> Len(str)]
  ELSE LET remaining == Len(str) - maxLength
           indicatorLength == Len(Indicator(remaining))
           truncateAt == Max(0, maxLength - indicatorLength)
           truncatedValue == Slice(str, 0, truncateAt) \o Indicator(Len(str) - truncateAt)
       IN  [value |-> truncatedValue, truncated |-> TRUE, originalLength |-> Len(str)]

\* Faulty variant: the cut is not floored at zero, and slice counts a negative
\* end from the end of the string
truncateString_nofloor(str, maxLength) ==
  IF Len(str) <= maxLength
  THEN [value |-> str, truncated |-> FALSE, originalLength |-> Len(str)]
  ELSE LET remaining == Len(str) - maxLength
           indicatorLength == Len(Indicator(remaining))
           truncateAt == maxLength - indicatorLength
           kept == IF truncateAt >= 0 THEN Slice(str, 0, truncateAt)
                   ELSE Slice(str, 0, Max(0, Len(str) + truncateAt))
       IN  [value |-> kept \o Indicator(remaining),
            truncated |-> TRUE,
            originalLength |-> Len(str)]

\* truncateString(str, maxLength)
truncateString(str, maxLength) ==
  IF Len(str) <= maxLength
  THEN [value |-> str, truncated |-> FALSE, originalLength |-> Len(str)]
  ELSE LET remaining == Len(str) - maxLength
           indicatorLength == Len(Indicator(remaining))
           truncateAt == Max(0, maxLength - indicatorLength)
           truncatedValue == Slice(str, 0, truncateAt) \o Indicator(remaining)
       IN  [value |-> truncatedValue, truncated |-> TRUE, originalLength |-> Len(str)]

\* An omitted optional argument is <<>>, a given one is <<n>>.
\* `maxLength: number = DEFAULT_MAX_STRING_LENGTH` and
\* `options?.maxStringLength ?? DEFAULT_MAX_STRING_LENGTH`
ResolveMax(opt) == IF opt = <<>> THEN DEFAULT_MAX_STRING_LENGTH ELSE opt[1]

(* ---------------------------- JSON values ------------------------------ *)

\* A JavaScript value is a tagged record; each tag has its own field name.
JNull == [t |-> "null"]

JUndef == [t |-> "undefined"]

JBool(b) == [t |-> "bool", b |-> b]

JNum(n) == [t |-> "num", n |-> n]

JStr(s) == [t |-> "str", s |-> s]

JArr(items) == [t |-> "arr", items |-> items]

\* An object is its own enumerable properties in property order: a sequence
\* of [k |-> key, v |-> value] with distinct keys.
JObj(props) == [t |-> "obj", props |-> props]

ProtoKey == <<"_", "_", "p", "r", "o", "t", "o", "_", "_">>

HasKey(props, key) == \E i \in 1..Len(props) : props[i].k = key

KeyIndex(props, key) == CHOOSE i \in 1..Len(props) : props[i].k = key

\* A property read: obj[key], undefined when the object has no such property
Get(props, key) == IF HasKey(props, key) THEN props[KeyIndex(props, key)].v ELSE JUndef

\* Whether a property key is an integer index ("0", "7", "12", not "07")
IsArrayIndex(key) ==
  /\ key # <<>>
  /\ \A i \in 1..Len(key) : IsDigit(key[i])
  /\ (Len(key) > 1 => key[1] # "0")

\* Whether a new property `key` is ordered before the existing property `other`:
\* integer indices come first in ascending order, then the other keys in the
\* order they were created.
OrderedBefore(key, other) ==
  /\ IsArrayIndex(key)
  /\ (IsArrayIndex(other) => StrToNat(key) < StrToNat(other))

\* Creating or overwriting an own data property (CreateDataProperty): what
\* JSON.parse, an object literal and a spread do.  An existing key keeps its place.
DefineProp(props, key, value) ==
  IF HasKey(props, key)
  THEN [props EXCEPT ![KeyIndex(props, key)] = [k |-> key, v |-> value]]
  ELSE LET before == {i \in 1..Len(props) : OrderedBefore(key, props[i].k)}
           at == IF before = {} THEN Len(props) + 1
                 ELSE CHOOSE i \in before : \A j \in before : i <= j
       IN  SubSeq(props, 1, at - 1) \o <<[k |-> key, v |-> value]>>
             \o SubSeq(props, at, Len(props))

\* The assignment `result[key] = value` on an object created by `{}` (an
\* ordinary [[Set]]).  Object.prototype has the accessor `__proto__`: assigning
\* to that key runs the setter, which replaces the prototype when the value is
\* an object or null and does nothing otherwise; no own property is created.
\* Every other key creates or overwrites an own data property.
AssignProp(props, key, value) ==
  IF key = ProtoKey THEN props ELSE DefineProp(props, key, value)

RECURSIVE truncateJsonValues(_, _)
RECURSIVE AssignEntries(_, _, _, _)

\* The loop `for (const [key, value] of Object.entries(obj)) result[key] = ...`
\* from entry i on
AssignEntries(result, entries, i, options) ==
  IF i > Len(entries) THEN result
  ELSE AssignEntries(
         AssignProp(result, entries[i].k, truncateJsonValues(entries[i].v, options)),
         entries, i + 1, options)

\* truncateJsonValues(obj, options)
truncateJsonValues(obj, options) ==
  LET maxStringLength == ResolveMax(options)
  IN  CASE obj.t \in {"null", "undefined"} -> obj
        [] obj.t = "str" -> JStr(truncateString(obj.s, maxStringLength).value)
        [] obj.t \in {"num", "bool"} -> obj
        [] obj.t = "arr" ->
             JArr([i \in 1..Len(obj.items) |-> truncateJsonValues(obj.items[i], options)])
        [] obj.t = "obj" -> JObj(AssignEntries(<<>>, obj.props, 1, options))

(* ------------------------- binary size, base64 ------------------------- *)

BINARY_MIN_LENGTH == 100

BASE64_BLOCK == 4

SAMPLE_LENGTH == 1000

KILO == 1024

\* Faulty variant: the tenth is cut off instead of rounded
ToFixed1_floor(num, den) ==
  LET tenths == (num * 10) \div den
  IN  NumToStr(tenths \div 10) \o <<".">> \o NumToStr(tenths % 10)

\* (num / den).toFixed(1) for den a power of two: the quotient is exact, and
\* toFixed takes the nearest tenth, the larger one on a tie
ToFixed1(num, den) ==
  LET tenths == (num * 20 + den) \div (2 * den)
  IN  NumToStr(tenths \div 10) \o <<".">> \o NumToStr(tenths % 10)

BinaryHead == <<"[", "B", "i", "n", "a", "r", "y", " ", "d", "a", "t", "a", ":", " ">>

\* formatBinarySize(bytes)
formatBinarySize(bytes) ==
  IF bytes < KILO
  THEN BinaryHead \o NumToStr(bytes) \o <<" ", "B", "]">>
  ELSE IF bytes < KILO * KILO
  THEN BinaryHead \o ToFixed1(bytes, KILO) \o <<" ", "K", "B", "]">>
  ELSE BinaryHead \o ToFixed1(bytes, KILO * KILO) \o <<" ", "M", "B", "]">>

\* The characters the regular expression class \s matches
IsSpace(c) == c \in {" ", "\t", "\n", "\r", "\f"}

\* str.replace(/\s/g, '')
RemoveSpaces(str) == SelectSeq(str, LAMBDA c : ~IsSpace(c))

Base64Alphabet ==
  {"A", "B", "C", "D", "E", "F", "G", "H", "I", "J", "K", "L", "M",
   "N", "O", "P", "Q", "R", "S", "T", "U", "V", "W", "X", "Y", "Z",
   "a", "b", "c", "d", "e", "f", "g", "h", "i", "j", "k", "l", "m",
   "n", "o", "p", "q", "r", "s", "t", "u", "v", "w", "x", "y", "z",
   "0", "1", "2", "3", "4", "5", "6", "7", "8", "9", "+", "/"}

\* /^[A-Za-z0-9+/]+=*$/.test(s): one or more alphabet characters, then only "="
MatchesBase64Pattern(s) ==
  LET pads == {i \in 1..Len(s) : s[i] = "="}
      n == IF pads = {} THEN Len(s) ELSE (CHOOSE i \in pads : \A j \in pads : i <= j) - 1
  IN  /\ n >= 1
      /\ \A i \in 1..n : s[i] \in Base64Alphabet
      /\ \A i \in (n + 1)..Len(s) : s[i] = "="

\* Faulty variant: the minimum length is not checked
isBase64Binary_nomin(str) ==
  LET cleaned == RemoveSpaces(str)
  IN  IF Len(cleaned) % BASE64_BLOCK # 0 THEN FALSE
      ELSE IF ~\E i \in 1..Len(cleaned) : cleaned[i] \in {"+", "/", "="} THEN FALSE
      ELSE MatchesBase64Pattern(Slice(cleaned, 0, SAMPLE_LENGTH))

\* isBase64Binary(str)
isBase64Binary(str) ==
  IF Len(str) < BINARY_MIN_LENGTH THEN FALSE
  ELSE LET cleaned == RemoveSpaces(str)
       IN  IF Len(cleaned) % BASE64_BLOCK # 0 THEN FALSE
           ELSE IF ~\E i \in 1..Len(cleaned) : cleaned[i] \in {"+", "/", "="} THEN FALSE
           ELSE MatchesBase64Pattern(Slice(cleaned, 0, SAMPLE_LENGTH))

(* --------------------- JSON.parse and JSON.stringify -------------------- *)

\* The outcome of parsing from a position: a value and the position after it,
\* a syntax error, or text outside the modelled part of the grammar
Parsed(v, i) == [st |-> "ok", v |-> v, i |-> i]

SyntaxError == [st |-> "error"]

NotModelled == [st |-> "notmodelled"]

\* JSON whitespace
IsJsonSpace(c) == c \in {" ", "\t", "\n", "\r"}

RECURSIVE SkipSpace(_, _)
SkipSpace(s, i) == IF i <= Len(s) /\ IsJsonSpace(s[i]) THEN SkipSpace(s, i + 1) ELSE i

At(s, i) == IF i <= Len(s) THEN s[i] ELSE "<end>"

\* The string token that opens at position i: it ends at the next quotation
\* mark; a control character before that is a syntax error
ParseString(s, i) ==
  LET stops == {j \in (i + 1)..Len(s) : s[j] \in {"\"", "\\", "\n", "\t", "\r", "\f"}}
      j == CHOOSE x \in stops : \A y \in stops : x <= y
  IN  IF stops = {} THEN SyntaxError
      ELSE IF s[j] = "\"" THEN Parsed(SubSeq(s, i + 1, j - 1), j + 1)
      ELSE IF s[j] = "\\" THEN NotModelled
      ELSE SyntaxError

RECURSIVE DigitRunEnd(_, _)
DigitRunEnd(s, i) == IF i < Len(s) /\ IsDigit(s[i + 1]) THEN DigitRunEnd(s, i + 1) ELSE i

\* The number token that starts with the digit at position i: "0" alone or a
\* run of digits without a leading zero
ParseNumber(s, i) ==
  LET e == IF s[i] = "0" THEN i ELSE DigitRunEnd(s, i)
  IN  IF At(s, e + 1) \in {".", "e", "E"} \/ e - i + 1 > MaxDigits THEN NotModelled
      ELSE Parsed(JNum(StrToNat(SubSeq(s, i, e))), e + 1)

ParseLiteral(s, i, word, v) ==
  IF i + Len(word) - 1 <= Len(s) /\ SubSeq(s, i, i + Len(word) - 1) = word
  THEN Parsed(v, i + Len(word))
  ELSE SyntaxError

RECURSIVE ParseValue(_, _)
RECURSIVE ParseElements(_, _, _)
RECURSIVE ParseMembers(_, _, _)

\* The elements of an array from position i on, `items` being those read so far
ParseElements(s, i, items) ==
  LET r == ParseValue(s, i)
  IN  IF r.st # "ok" THEN r
      ELSE LET j == SkipSpace(s, r.i)
           IN  IF At(s, j) = "," THEN ParseElements(s, j + 1, Append(items, r.v))
               ELSE IF At(s, j) = "]" THEN Parsed(JArr(Append(items, r.v)), j + 1)
               ELSE SyntaxError

\* The members of an object from position i on, `props` being those read so
\* far; a repeated key overwrites the earlier value
ParseMembers(s, i, props) ==
  LET k == SkipSpace(s, i)
  IN  IF At(s, k) # "\"" THEN SyntaxError
      ELSE LET key == ParseString(s, k)
           IN  IF key.st # "ok" THEN key
               ELSE LET c == SkipSpace(s, key.i)
                    IN  IF At(s, c) # ":" THEN SyntaxError
                        ELSE LET r == ParseValue(s, c + 1)
                             IN  IF r.st # "ok" THEN r
                                 ELSE LET j == SkipSpace(s, r.i)
                                          next == DefineProp(props, key.v, r.v)
                                      IN  IF At(s, j) = "," THEN ParseMembers(s, j + 1, next)
                                          ELSE IF At(s, j) = "}" THEN Parsed(JObj(next), j + 1)
                                          ELSE SyntaxError

ParseValue(s, i0) ==
  LET i == SkipSpace(s, i0)
      c == At(s, i)
  IN  CASE c = "{" ->
             IF At(s, SkipSpace(s, i + 1)) = "}"
             THEN Parsed(JObj(<<>>), SkipSpace(s, i + 1) + 1)
             ELSE ParseMembers(s, i + 1, <<>>)
        [] c = "[" ->
             IF At(s, SkipSpace(s, i + 1)) = "]"
             THEN Parsed(JArr(<<>>), SkipSpace(s, i + 1) + 1)
             ELSE ParseElements(s, i + 1, <<>>)
        [] c = "\"" ->
             LET r == ParseString(s, i)
             IN  IF r.st = "ok" THEN Parsed(JStr(r.v), r.i) ELSE r
        [] c = "-" -> NotModelled
        [] IsDigit(c) -> ParseNumber(s, i)
        [] c = "t" -> ParseLiteral(s, i, <<"t", "r", "u", "e">>, JBool(TRUE))
        [] c = "f" -> ParseLiteral(s, i, <<"f", "a", "l", "s", "e">>, JBool(FALSE))
        [] c = "n" -> ParseLiteral(s, i, <<"n", "u", "l", "l">>, JNull)
        [] OTHER -> SyntaxError

\* JSON.parse(text): one value, with nothing but whitespace around it
JSONparse(text) ==
  LET r == ParseValue(text, 1)
  IN  IF r.st # "ok" THEN r
      ELSE IF SkipSpace(text, r.i) = Len(text) + 1 THEN r
      ELSE SyntaxError

\* How JSON.stringify writes one character of a string
EscapedChar(c) ==
  CASE c = "\"" -> <<"\\", "\"">>
    [] c = "\\" -> <<"\\", "\\">>
    [] c = "\n" -> <<"\\", "n">>
    [] c = "\t" -> <<"\\", "t">>
    [] c = "\r" -> <<"\\", "r">>
    [] c = "\f" -> <<"\\", "f">>
    [] OTHER -> <<c>>

\* The characters of a string as JSON.stringify writes them
RECURSIVE Escaped(_)
Escaped(s) ==
  IF s = <<>> THEN <<>>
  ELSE IF Len(s) = 1 THEN EscapedChar(s[1])
  ELSE Escaped(SubSeq(s, 1, Len(s) \div 2)) \o Escaped(SubSeq(s, Len(s) \div 2 + 1, Len(s)))

Quote(s) == <<"\"">> \o Escaped(s) \o <<"\"">>

\* The parts joined with sep between them
RECURSIVE Join(_, _)
Join(parts, sep) ==
  IF parts = <<>> THEN <<>>
  ELSE IF Len(parts) = 1 THEN parts[1]
  ELSE parts[1] \o sep \o Join(Tail(parts), sep)

\* JSON.stringify(value, null, gap) below the indentation `indent`, gap being
\* a number of spaces (0: the compact form); a property whose value is
\* undefined is left out
RECURSIVE Serialize(_, _, _)
Serialize(v, gap, indent) ==
  LET inner == indent + gap
      break(n) == IF gap = 0 THEN <<>> ELSE <<"\n">> \o Rep(" ", n)
      colon == IF gap = 0 THEN <<":">> ELSE <<":", " ">>
  IN  CASE v.t \in {"null", "undefined"} -> <<"n", "u", "l", "l">>
        [] v.t = "bool" ->
             IF v.b THEN <<"t", "r", "u", "e">> ELSE <<"f", "a", "l", "s", "e">>
        [] v.t = "num" -> NumToStr(v.n)
        [] v.t = "str" -> Quote(v.s)
        [] v.t = "arr" ->
             IF v.items = <<>> THEN <<"[", "]">>
             ELSE <<"[">> \o break(inner)
                  \o Join([i \in 1..Len(v.items) |-> Serialize(v.items[i], gap, inner)],
                          <<",">> \o break(inner))
                  \o break(indent) \o <<"]">>
        [] v.t = "obj" ->
             LET shown == SelectSeq(v.props, LAMBDA p : p.v.t # "undefined")
             IN  IF shown = <<>> THEN <<"{", "}">>
                 ELSE <<"{">> \o break(inner)
                      \o Join([i \in 1..Len(shown) |->
                                 Quote(shown[i].k) \o colon
                                   \o Serialize(shown[i].v, gap, inner)],
                              <<",">> \o break(inner))
                      \o break(indent) \o <<"}">>

JSONstringify(v, gap) == Serialize(v, gap, 0)

(* --------------------------- response bodies --------------------------- *)

\* Faulty variant: a body that parses as JSON is preferred to the encoding flag
truncateResponseBody_jsonfirst(body, base64Encoded, options) ==
  LET maxStringLength == ResolveMax(options)
      parsed == JSONparse(body)
  IN  IF parsed.st = "ok"
      THEN LET truncated == truncateJsonValues(parsed.v, <<maxStringLength>>)
               truncatedBody == JSONstringify(truncated, 2)
               originalFormatted == JSONstringify(parsed.v, 2)
           IN  [body |-> truncatedBody,
                truncated |-> Len(truncatedBody) < Len(originalFormatted),
                originalLength |-> Len(body),
                type |-> "json"]
      ELSE IF base64Encoded \/ isBase64Binary(body)
      THEN [body |-> formatBinarySize((Len(body) * 3) \div 4),
            truncated |-> TRUE,
            originalLength |-> Len(body),
            type |-> "binary"]
      ELSE LET result == truncateString(body, maxStringLength)
           IN  [body |-> result.value,
                truncated |-> result.truncated,
                originalLength |-> result.originalLength,
                type |-> "text"]

\* Faulty variant: the text branch reports the body's length after truncation
truncateResponseBody_textlen(body, base64Encoded, options) ==
  LET maxStringLength == ResolveMax(options)
  IN  IF base64Encoded \/ isBase64Binary(body)
      THEN [body |-> formatBinarySize((Len(body) * 3) \div 4),
            truncated |-> TRUE,
            originalLength |-> Len(body),
            type |-> "binary"]
      ELSE LET parsed == JSONparse(body)
           IN  IF parsed.st = "ok"
               THEN LET truncated == truncateJsonValues(parsed.v, <<maxStringLength>>)
                        truncatedBody == JSONstringify(truncated, 2)
                        originalFormatted == JSONstringify(parsed.v, 2)
                    IN  [body |-> truncatedBody,
                         truncated |-> Len(truncatedBody) < Len(originalFormatted),
                         originalLength |-> Len(body),
                         type |-> "json"]
               ELSE LET result == truncateString(body, maxStringLength)
                    IN  [body |-> result.value,
                         truncated |-> result.truncated,
                         originalLength |-> Len(result.value),
                         type |-> "text"]

\* The outcome of a call that raises an error instead of returning
Thrown(name) == [threw |-> name]

\* Faulty variant: JSON.parse is called outside a try block, so its
\* SyntaxError reaches the caller
truncateResponseBody_nocatch(body, base64Encoded, options) ==
  LET maxStringLength == ResolveMax(options)
  IN  IF base64Encoded \/ isBase64Binary(body)
      THEN [body |-> formatBinarySize((Len(body) * 3) \div 4),
            truncated |-> TRUE,
            originalLength |-> Len(body),
            type |-> "binary"]
      ELSE LET parsed == JSONparse(body)
           IN  IF parsed.st = "ok"
               THEN LET truncated == truncateJsonValues(parsed.v, <<maxStringLength>>)
                        truncatedBody == JSONstringify(truncated, 2)
                        originalFormatted == JSONstringify(parsed.v, 2)
                    IN  [body |-> truncatedBody,
                         truncated |-> Len(truncatedBody) < Len(originalFormatted),
                         originalLength |-> Len(body),
                         type |-> "json"]
               ELSE Thrown("SyntaxError")

\* truncateResponseBody(body, base64Encoded, options)
truncateResponseBody(body, base64Encoded, options) ==
  LET maxStringLength == ResolveMax(options)
  IN  IF base64Encoded \/ isBase64Binary(body)
      THEN LET estimatedBytes == (Len(body) * 3) \div 4
           IN  [body |-> formatBinarySize(estimatedBytes),
                truncated |-> TRUE,
                originalLength |-> Len(body),
                type |-> "binary"]
      ELSE LET parsed == JSONparse(body)
           IN  IF parsed.st = "ok"
               THEN LET truncated == truncateJsonValues(parsed.v, <<maxStringLength>>)
                        truncatedBody == JSONstringify(truncated, 2)
                        originalFormatted == JSONstringify(parsed.v, 2)
                    IN  [body |-> truncatedBody,
                         truncated |-> Len(truncatedBody) < Len(originalFormatted),
                         originalLength |-> Len(body),
                         type |-> "json"]
               ELSE LET result == truncateString(body, maxStringLength)
                    IN  [body |-> result.value,
                         truncated |-> result.truncated,
                         originalLength |-> result.originalLength,
                         type |-> "text"]

(* ------------------------- entries and headers ------------------------- *)

\* The truthiness of a value in a condition
Truthy(x) ==
  CASE x.t \in {"null", "undefined"} -> FALSE
    [] x.t = "str" -> x.s # <<>>
    [] x.t = "num" -> x.n # 0
    [] x.t = "bool" -> x.b
    [] OTHER -> TRUE

\* The spread `...entry` into a new object literal: every own property of
\* entry is defined on the target, in entry's property order
RECURSIVE Spread(_, _, _)
Spread(target, props, i) ==
  IF i > Len(props) THEN target
  ELSE Spread(DefineProp(target, props[i].k, props[i].v), props, i + 1)

Key_url == <<"u", "r", "l">>

Key_statusText == <<"s", "t", "a", "t", "u", "s", "T", "e", "x", "t">>

Key_error == <<"e", "r", "r", "o", "r">>

\* Faulty variant: every string field of the entry is truncated
truncateNetworkEntry_allstrings(entry, options) ==
  LET maxStringLength == ResolveMax(options)
  IN  [i \in 1..Len(entry) |->
         IF entry[i].v.t = "str"
         THEN [k |-> entry[i].k,
               v |-> JStr(truncateString(entry[i].v.s, maxStringLength).value)]
         ELSE entry[i]]

\* truncateNetworkEntry(entry, options); entry is the object's property list
truncateNetworkEntry(entry, options) ==
  LET maxStringLength == ResolveMax(options)
      copy == Spread(<<>>, entry, 1)
      url == JStr(truncateString(Get(entry, Key_url).s, maxStringLength).value)
      statusText ==
        IF Truthy(Get(entry, Key_statusText))
        THEN JStr(truncateString(Get(entry, Key_statusText).s, maxStringLength).value)
        ELSE Get(entry, Key_statusText)
      error ==
        IF Truthy(Get(entry, Key_error))
        THEN JStr(truncateString(Get(entry, Key_error).s, maxStringLength).value)
        ELSE Get(entry, Key_error)
  IN  DefineProp(DefineProp(DefineProp(copy, Key_url, url), Key_statusText, statusText),
                 Key_error, error)

\* The loop of truncateHeaders from entry i on; header values are strings
RECURSIVE AssignHeaders(_, _, _, _)
AssignHeaders(result, entries, i, maxStringLength) ==
  IF i > Len(entries) THEN result
  ELSE AssignHeaders(
         AssignProp(result, entries[i].k,
                    JStr(truncateString(entries[i].v.s, maxStringLength).value)),
         entries, i + 1, maxStringLength)

\* truncateHeaders(headers, options); headers is the object's property list
truncateHeaders(headers, options) ==
  AssignHeaders(<<>>, headers, 1, ResolveMax(options))

(* ------------------------------ inputs --------------------------------- *)

PatChars == <<"a", "b", "9", ".", "[", "+", " ", "c", "]", "s">>

\* A string of length n whose characters vary with the position
Pat(n, k) == [i \in 1..n |-> PatChars[((i * k + k) % Len(PatChars)) + 1]]

Strings ==
  {Pat(n, k) : n \in 0..MaxStrLen, k \in {1, 3}} \cup {Rep("a", LongLen)}

Budgets == (0..MaxBudget) \cup {100, DEFAULT_MAX_STRING_LENGTH, FullBudget}

OptBudgets == {<<>>} \cup {<<b>> : b \in Budgets}

\* The object a caller holds after defining the given key/value pairs in turn
RECURSIVE ObjectOf(_)
ObjectOf(pairs) ==
  IF pairs = <<>> THEN <<>>
  ELSE DefineProp(ObjectOf(SubSeq(pairs, 1, Len(pairs) - 1)),
                  pairs[Len(pairs)][1], pairs[Len(pairs)][2])

\* Sequences over S of length at most n
SeqsUpTo(S, n) == UNION {[1..m -> S] : m \in 0..n}

\* Sequences of distinct elements of S of length at most n
DistinctSeqs(S, n) == {q \in SeqsUpTo(S, n) : \A i, j \in 1..Len(q) : i # j => q[i] # q[j]}

Keys == {<<"a">>, <<"7">>, ProtoKey}

LeafStrings == {<<>>, Pat(3, 1), Pat(18, 3)}

JsonLeaves == {JNull, JBool(TRUE), JNum(42)} \cup {JStr(s) : s \in LeafStrings}

\* Arrays and objects of at most MaxWidth members drawn from S
Containers(S) ==
  {JArr(items) : items \in SeqsUpTo(S, MaxWidth)}
  \cup {JObj(ObjectOf([i \in 1..Len(ks) |-> <<ks[i], vs[i]>>])) :
          <<ks, vs>> \in {x \in DistinctSeqs(Keys, MaxWidth) \X SeqsUpTo(S, MaxWidth) :
                            Len(x[1]) = Len(x[2])}}

Nested == Containers(JsonLeaves)

\* One more level: a container of a single nested container
Wrapped ==
  {JArr(<<x>>) : x \in Nested} \cup {JObj(<<[k |-> k, v |-> x]>>) : k \in Keys, x \in Nested}

JsonValues == JsonLeaves \cup Nested \cup Wrapped

JsonBudgets == {<<>>, <<0>>, <<2>>, <<16>>}

Key_requestId == <<"r", "e", "q", "u", "e", "s", "t", "I", "d">>

Key_method == <<"m", "e", "t", "h", "o", "d">>

Key_status == <<"s", "t", "a", "t", "u", "s">>

Key_mimeType == <<"m", "i", "m", "e", "T", "y", "p", "e">>

Key_resourceType == <<"r", "e", "s", "o", "u", "r", "c", "e", "T", "y", "p", "e">>

Key_timestamp == <<"t", "i", "m", "e", "s", "t", "a", "m", "p">>

Key_completed == <<"c", "o", "m", "p", "l", "e", "t", "e", "d">>

\* An optional field: left out, or given as one of the values
Optional(key, values) == {<<>>} \cup {<<<<key, v>>>> : v \in values}

\* NetworkEntryForTruncation records: the required fields, then any of the
\* optional ones (an optional string may also be given as undefined)
Entries ==
  {ObjectOf(<<<<Key_requestId, JStr(id)>>,
              <<Key_method, JStr(<<"G", "E", "T">>)>>,
              <<Key_url, JStr(url)>>>>
            \o status \o statusText \o mimeType
            \o <<<<Key_resourceType, JStr(Pat(17, 3))>>,
                 <<Key_timestamp, JNum(1700000000)>>,
                 <<Key_completed, JBool(done)>>>>
            \o error) :
     id \in {Pat(3, 1), Pat(19, 1)},
     url \in {Pat(5, 3), Pat(20, 3)},
     status \in Optional(Key_status, {JNum(200)}),
     statusText \in Optional(Key_statusText, {JUndef, JStr(<<>>), JStr(Pat(2, 1)), JStr(Pat(18, 1))}),
     mimeType \in Optional(Key_mimeType, {JStr(Pat(21, 1))}),
     done \in BOOLEAN,
     error \in Optional(Key_error, {JUndef, JStr(Pat(19, 3))})}

HeaderNames == {<<"a">>, <<"7">>, ProtoKey, Pat(22, 1)}

HeaderValues == {<<>>, Pat(4, 1), Pat(18, 3), Pat(23, 1)}

HeaderMaps ==
  {ObjectOf([i \in 1..Len(ks) |-> <<ks[i], JStr(vs[i])>>]) :
     <<ks, vs>> \in {x \in DistinctSeqs(HeaderNames, MaxWidth) \X SeqsUpTo(HeaderValues, MaxWidth) :
                       Len(x[1]) = Len(x[2])}}

\* Values whose serializations are sent as response bodies
BodyValues ==
  JsonLeaves \cup Nested \cup {JArr(<<x>>) : x \in Nested}
  \cup {JObj(<<[k |-> <<"a">>, v |-> JStr(Rep("a", LongBody))]>>)}

CompactBodies == {JSONstringify(v, 0) : v \in BodyValues}

PrettyBodies == {JSONstringify(v, 2) : v \in BodyValues}

\* JSON with whitespace around it, JSON cut short and JSON followed by more text
NearJsonBodies ==
  {<<" ">> \o b \o <<"\n">> : b \in {JSONstringify(v, 0) : v \in JsonLeaves}}
  \cup {SubSeq(b, 1, Len(b) - 1) : b \in CompactBodies}
  \cup {b \o <<"]">> : b \in {JSONstringify(v, 0) : v \in Nested}}

TextBodies ==
  {<<>>, Rep("A", BINARY_MIN_LENGTH), Rep("x", LongLen)}
  \cup {Pat(n, 1) : n \in {1, 5, 17, 23, 99, 104}}

\* Bodies that look like base64: padded, unpadded with "+", broken by
\* whitespace, longer than the sample with an invalid tail, and near misses
Base64LikeBodies ==
  {Rep("A", 99) \o <<"=">>,
   Rep("Q", 96) \o <<"A", "A", "=", "=">>,
   Rep("b", 50) \o <<"\n">> \o Rep("/", 50),
   Rep("A", SAMPLE_LENGTH) \o <<"+", "!", "!", "!">>,
   Rep("A", 98) \o <<"=">>,
   Rep("A", 97) \o <<"=", "A", "A">>,
   Rep("A", 95) \o <<"=">>}

\* The bodies; text outside the modelled part of the JSON grammar is left out
Bodies ==
  {b \in CompactBodies \cup PrettyBodies \cup NearJsonBodies \cup TextBodies
           \cup Base64LikeBodies :
     JSONparse(b).st # "notmodelled"}

BodyBudgets == JsonBudgets \cup {<<100>>}

\* Endings put after a run of "A": padding, the characters + and /, whitespace,
\* a character outside the base64 alphabet, padding in the middle
Base64Tails ==
  {<<>>, <<"=">>, <<"=", "=">>, <<"+">>, <<"/", "A">>, <<" ", "=">>, <<"\n", "+", "\t">>,
   <<"!", "=">>, <<"=", "A">>}

\* Strings given to isBase64Binary: short ones, and runs whose length is
\* within Base64Margin of the minimum length
Base64Inputs ==
  Base64LikeBodies
  \cup {Rep("A", n) \o tail :
          n \in (0..Base64Margin)
                  \cup ((BINARY_MIN_LENGTH - Base64Margin)..(BINARY_MIN_LENGTH + Base64Margin)),
          tail \in Base64Tails}
  \cup {Pat(n, 1) : n \in {BINARY_MIN_LENGTH, BINARY_MIN_LENGTH + BASE64_BLOCK}}

\* Byte counts given to formatBinarySize: the tests' values, a tie of the
\* rounding (1280 / 1024 = 1.25), and the counts within SizeMargin of the
\* two thresholds
ByteCounts ==
  {0, 1, 500, 1280, 5000, 5000000}
  \cup ((KILO - SizeMargin)..(KILO + SizeMargin))
  \cup ((KILO * KILO - SizeMargin)..(KILO * KILO + SizeMargin))
  \cup {KILO * k + 51 * j : k \in 1..SizeMargin, j \in 0..20}

(* --------------------------- state machine ----------------------------- *)

NoValue == [none |-> TRUE]

Init ==
  /\ pc = "idle"
  /\ op = "none"
  /\ arg = NoValue
  /\ out = NoValue

CallTruncateString ==
  /\ pc = "idle"
  /\ \E s \in Strings, m \in OptBudgets :
       /\ arg' = [str |-> s, maxLength |-> ResolveMax(m), given |-> m]
       /\ out' = truncateString(s, ResolveMax(m))
  /\ op' = "truncateString"
  /\ pc' = "done"

CallTruncateJsonValues ==
  /\ pc = "idle"
  /\ \E v \in JsonValues, o \in JsonBudgets :
       /\ arg' = [obj |-> v, options |-> o]
       /\ out' = truncateJsonValues(v, o)
  /\ op' = "truncateJsonValues"
  /\ pc' = "done"

CallTruncateNetworkEntry ==
  /\ pc = "idle"
  /\ \E e \in Entries, o \in JsonBudgets :
       /\ arg' = [entry |-> e, options |-> o]
       /\ out' = truncateNetworkEntry(e, o)
  /\ op' = "truncateNetworkEntry"
  /\ pc' = "done"

CallTruncateHeaders ==
  /\ pc = "idle"
  /\ \E h \in HeaderMaps, o \in JsonBudgets :
       /\ arg' = [headers |-> h, options |-> o]
       /\ out' = truncateHeaders(h, o)
  /\ op' = "truncateHeaders"
  /\ pc' = "done"

CallTruncateResponseBody ==
  /\ pc = "idle"
  /\ \E b \in Bodies, f \in BOOLEAN, o \in BodyBudgets :
       /\ arg' = [body |-> b, base64Encoded |-> f, options |-> o]
       /\ out' = truncateResponseBody(b, f, o)
  /\ op' = "truncateResponseBody"
  /\ pc' = "done"

CallIsBase64Binary ==
  /\ pc = "idle"
  /\ \E s \in Base64Inputs :
       /\ arg' = [str |-> s]
       /\ out' = isBase64Binary(s)
  /\ op' = "isBase64Binary"
  /\ pc' = "done"

CallFormatBinarySize ==
  /\ pc = "idle"
  /\ \E n \in ByteCounts :
       /\ arg' = [bytes |-> n]
       /\ out' = formatBinarySize(n)
  /\ op' = "formatBinarySize"
  /\ pc' = "done"

\* The caller drops the result; the functions keep no state between calls.
Return ==
  /\ pc = "done"
  /\ pc' = "idle"
  /\ op' = "none"
  /\ arg' = NoValue
  /\ out' = NoValue

Next ==
  \/ CallTruncateString
  \/ CallTruncateJsonValues
  \/ CallTruncateResponseBody
  \/ CallIsBase64Binary
  \/ CallFormatBinarySize
  \/ CallTruncateNetworkEntry
  \/ CallTruncateHeaders
  \/ Return

Spec == Init /\ [][Next]_vars

(* ---------------- reading a marker back out of a value ----------------- *)

EndsWith(v, t) == Len(v) >= Len(t) /\ SubSeq(v, Len(v) - Len(t) + 1, Len(v)) = t

MarkerHead == <<".", ".", ".", "[", "+">>

MarkerTail == <<" ", "c", "h", "a", "r", "s", "]">>

\* First position of the run of digits that ends at position e (e + 1 if none)
RECURSIVE DigitRunStart(_, _)
DigitRunStart(v, e) ==
  IF e >= 1 /\ IsDigit(v[e]) THEN DigitRunStart(v, e - 1) ELSE e + 1

\* Position where the marker "...[+N chars]" that ends v starts, 0 if v ends with none
MarkerStart(v) ==
  IF ~EndsWith(v, MarkerTail) THEN 0
  ELSE LET e == Len(v) - Len(MarkerTail)
           d == DigitRunStart(v, e)
       IN  IF d > e \/ ~EndsWith(SubSeq(v, 1, d - 1), MarkerHead) THEN 0
           ELSE d - Len(MarkerHead)

\* The integer N of the marker that ends v, -1 if v ends with none
MarkerCount(v) ==
  IF MarkerStart(v) = 0 THEN -1
  ELSE StrToNat(SubSeq(v, MarkerStart(v) + Len(MarkerHead), Len(v) - Len(MarkerTail)))

\* The part of v before its marker
BeforeMarker(v) == SubSeq(v, 1, MarkerStart(v) - 1)

IsPrefix(p, s) == Len(p) <= Len(s) /\ SubSeq(s, 1, Len(p)) = p

(* ------------------------------- claims -------------------------------- *)

\* C1: a string no longer than the budget (the boundary length = budget and
\* the unbounded "full" budget included) comes back as
\* {value: s, truncated: false, originalLength: length(s)}.
C1_ShortUnchanged ==
  (op = "truncateString" /\ Len(arg.str) <= arg.maxLength) =>
     out = [value |-> arg.str, truncated |-> FALSE, originalLength |-> Len(arg.str)]

\* a non-empty string of exactly the budget's length was passed and returned
C1_Witness ==
  /\ op = "truncateString"
  /\ Len(arg.str) = arg.maxLength
  /\ Len(arg.str) > 0
  /\ out.value = arg.str

\* C2: a string longer than the budget comes back with truncated = true,
\* originalLength = length(s) and a value ending with "...[+N chars]" where
\* N = length(s) - budget.
C2_MarkerCountsOverBudget ==
  (op = "truncateString" /\ Len(arg.str) > arg.maxLength) =>
     /\ out.truncated = TRUE
     /\ out.originalLength = Len(arg.str)
     /\ MarkerCount(out.value) = Len(arg.str) - arg.maxLength

\* a truncated result that keeps a non-empty prefix of the string
C2_Witness ==
  /\ op = "truncateString"
  /\ Len(arg.str) > arg.maxLength
  /\ out.truncated
  /\ MarkerStart(out.value) > 1
  /\ MarkerCount(out.value) >= 1

\* C3: whenever truncated = true, the marker's N is the number of characters
\* removed: length(s) minus the number of leading characters of s kept before
\* the marker.
C3_MarkerCountsRemoved ==
  (op = "truncateString" /\ out.truncated) =>
     /\ IsPrefix(BeforeMarker(out.value), arg.str)
     /\ MarkerCount(out.value) = Len(arg.str) - Len(BeforeMarker(out.value))

(* ------------------- shape and leaves of a JSON value ------------------ *)

\* Whether r has the shape of v: the same keys in the same order in every
\* object, the same length in every array, a string where v has a string, and
\* the identical value where v has null, a number or a boolean
RECURSIVE SameShape(_, _)
SameShape(v, r) ==
  /\ r.t = v.t
  /\ CASE v.t = "str" -> TRUE
       [] v.t = "arr" ->
            /\ Len(r.items) = Len(v.items)
            /\ \A i \in 1..Len(v.items) : SameShape(v.items[i], r.items[i])
       [] v.t = "obj" ->
            /\ Len(r.props) = Len(v.props)
            /\ \A i \in 1..Len(v.props) :
                 /\ r.props[i].k = v.props[i].k
                 /\ SameShape(v.props[i].v, r.props[i].v)
       [] OTHER -> r = v

\* v with every string leaf x replaced by truncateString(x, b).value
RECURSIVE LeavesTruncated(_, _)
LeavesTruncated(v, b) ==
  CASE v.t = "str" -> JStr(truncateString(v.s, b).value)
    [] v.t = "arr" -> JArr([i \in 1..Len(v.items) |-> LeavesTruncated(v.items[i], b)])
    [] v.t = "obj" ->
         JObj([i \in 1..Len(v.props) |->
                 [k |-> v.props[i].k, v |-> LeavesTruncated(v.props[i].v, b)]])
    [] OTHER -> v

\* The string leaves of v
RECURSIVE StringLeaves(_)
StringLeaves(v) ==
  CASE v.t = "str" -> {v.s}
    [] v.t = "arr" -> UNION {StringLeaves(v.items[i]) : i \in 1..Len(v.items)}
    [] v.t = "obj" -> UNION {StringLeaves(v.props[i].v) : i \in 1..Len(v.props)}
    [] OTHER -> {}

\* C4: truncateJsonValues(v, b) has the shape of v: same keys in the same
\* order in every mapping (whatever the key's spelling), same length and order
\* of every sequence, identical nulls, numbers and booleans.
C4_ShapePreserved ==
  op = "truncateJsonValues" => SameShape(arg.obj, out)

\* C5: truncateJsonValues(v, b) replaces every string leaf x of v, at any
\* depth, by truncateString(x, b).value and changes nothing else.
C5_LeavesTruncated ==
  op = "truncateJsonValues" => out = LeavesTruncated(arg.obj, ResolveMax(arg.options))

TruncatedFields == {Key_url, Key_statusText, Key_error}

\* C9: truncateNetworkEntry(e, b) gives url, statusText and error the value of
\* truncateString(field, b) when the field is present, leaves an absent one
\* absent (reading it still gives undefined), and returns every other field
\* of e as it is, whatever its length.
C9_EntryFrame ==
  op = "truncateNetworkEntry" =>
    LET e == arg.entry
        b == ResolveMax(arg.options)
    IN  /\ \A key \in TruncatedFields :
             IF Get(e, key).t = "str"
             THEN Get(out, key) = JStr(truncateString(Get(e, key).s, b).value)
             ELSE Get(out, key) = JUndef
        /\ \A i \in 1..Len(e) :
             e[i].k \notin TruncatedFields => Get(out, e[i].k) = e[i].v
        /\ \A i \in 1..Len(out) :
             out[i].k \in TruncatedFields \/ HasKey(e, out[i].k)

\* an entry with an identifier and a mime type longer than the budget, a
\* status text that was truncated and no error
C9_Witness ==
  /\ op = "truncateNetworkEntry"
  /\ Len(Get(arg.entry, Key_requestId).s) > ResolveMax(arg.options)
  /\ HasKey(arg.entry, Key_mimeType)
  /\ Len(Get(arg.entry, Key_mimeType).s) > ResolveMax(arg.options)
  /\ ~HasKey(arg.entry, Key_error)
  /\ HasKey(arg.entry, Key_statusText)
  /\ Get(arg.entry, Key_statusText).t = "str"
  /\ MarkerStart(Get(out, Key_statusText).s) > 1
  /\ Get(out, Key_requestId) = Get(arg.entry, Key_requestId)

\* The length of the marker truncateString puts on s under budget b (0 if none)
MarkerLength(s, b) == IF Len(s) > b THEN Len(Indicator(Len(s) - b)) ELSE 0

\* C10: truncateHeaders(h, b) returns a map with exactly the keys of h in the
\* order of h, each value being truncateString(h[k], b).value and no longer
\* than b plus the length of its marker.
C10_HeadersPreserved ==
  op = "truncateHeaders" =>
    LET h == arg.headers
        b == ResolveMax(arg.options)
    IN  /\ Len(out) = Len(h)
        /\ \A i \in 1..Len(h) :
             /\ out[i].k = h[i].k
             /\ out[i].v = JStr(truncateString(h[i].v.s, b).value)
             /\ Len(out[i].v.s) <= b + MarkerLength(h[i].v.s, b)

\* C6: with base64Encoded = true the result has type "binary" and
\* truncated = true for every body (valid JSON, short or empty included), and
\* the budget has no influence on the result.
C6_FlagMeansBinary ==
  (op = "truncateResponseBody" /\ arg.base64Encoded) =>
     /\ out.type = "binary"
     /\ out.truncated = TRUE
     /\ \A o \in BodyBudgets : truncateResponseBody(arg.body, TRUE, o) = out

\* a flagged body that is valid JSON and too short for the binary heuristic
C6_Witness ==
  /\ op = "truncateResponseBody"
  /\ arg.base64Encoded
  /\ JSONparse(arg.body).st = "ok"
  /\ JSONparse(arg.body).v.t = "obj"
  /\ ~isBase64Binary(arg.body)
  /\ out.type = "binary"

\* The call took the JSON path: no flag, not detected as binary, parses
TookJsonPath ==
  /\ op = "truncateResponseBody"
  /\ ~arg.base64Encoded
  /\ ~isBase64Binary(arg.body)
  /\ JSONparse(arg.body).st = "ok"

\* C7: on the JSON path, when no string leaf of the parsed value is longer
\* than the budget, the result has type "json" and truncated = false.
C7_NothingLongNotTruncated ==
  (/\ TookJsonPath
   /\ \A x \in StringLeaves(JSONparse(arg.body).v) : Len(x) <= ResolveMax(arg.options)) =>
     /\ out.type = "json"
     /\ out.truncated = FALSE

\* C8: without the flag, for a body that is not detected as binary and does
\* not parse as JSON, the result is type "text" with body, truncated and
\* originalLength taken from truncateString(body, b).
C8_ParseFailureIsText ==
  (/\ op = "truncateResponseBody"
   /\ ~arg.base64Encoded
   /\ ~isBase64Binary(arg.body)
   /\ JSONparse(arg.body).st # "ok") =>
     LET r == truncateString(arg.body, ResolveMax(arg.options))
     IN  out = [body |-> r.value,
                truncated |-> r.truncated,
                originalLength |-> r.originalLength,
                type |-> "text"]

\* JSON cut short, longer than the budget, came back as truncated text
C8_Witness ==
  /\ op = "truncateResponseBody"
  /\ ~arg.base64Encoded
  /\ Len(arg.body) > 0
  /\ arg.body[1] = "{"
  /\ JSONparse(arg.body).st = "error"
  /\ out.type = "text"
  /\ out.truncated
  /\ MarkerStart(out.body) > 1

\* The number of characters of s that are not whitespace
StrippedLength(s) == Cardinality({i \in 1..Len(s) : ~IsSpace(s[i])})

HasBase64Sign(s) == \E i \in 1..Len(s) : s[i] \in {"+", "/", "="}

\* C11: isBase64Binary(s) is true only if length(s) >= 100, the length without
\* whitespace is divisible by 4 and s contains one of + / =; so it is false
\* for every s shorter than 100 and for every s without + / =.
C11_BinaryNecessary ==
  op = "isBase64Binary" =>
    /\ (out = TRUE =>
          /\ Len(arg.str) >= 100
          /\ StrippedLength(arg.str) % 4 = 0
          /\ HasBase64Sign(arg.str))
    /\ (Len(arg.str) < 100 => out = FALSE)
    /\ (~HasBase64Sign(arg.str) => out = FALSE)

\* a string with whitespace in it was classified as binary: its own length
\* is not a multiple of 4, its length without whitespace is
C11_Witness ==
  /\ op = "isBase64Binary"
  /\ out = TRUE
  /\ Len(arg.str) % 4 # 0
  /\ StrippedLength(arg.str) % 4 = 0

(* ------------------------ results of the right type --------------------- *)

IsString(s) == s \in Seq(STRING)

\* Whether v is a JavaScript value of the JSON kinds
RECURSIVE IsJsonValue(_)
IsJsonValue(v) ==
  /\ "t" \in DOMAIN v
  /\ CASE v.t \in {"null", "undefined"} -> TRUE
       [] v.t = "bool" -> v.b \in BOOLEAN
       [] v.t = "num" -> v.n \in Int
       [] v.t = "str" -> IsString(v.s)
       [] v.t = "arr" -> \A i \in 1..Len(v.items) : IsJsonValue(v.items[i])
       [] v.t = "obj" ->
            \A i \in 1..Len(v.props) : IsString(v.props[i].k) /\ IsJsonValue(v.props[i].v)
       [] OTHER -> FALSE

\* Whether r is a value of the result type of operation o, not an error
IsResultOf(o, r) ==
  CASE o = "truncateString" ->
         /\ DOMAIN r = {"value", "truncated", "originalLength"}
         /\ IsString(r.value)
         /\ r.truncated \in BOOLEAN
         /\ r.originalLength \in Nat
    [] o = "truncateJsonValues" -> IsJsonValue(r)
    [] o = "isBase64Binary" -> r \in BOOLEAN
    [] o = "formatBinarySize" -> IsString(r)
    [] o = "truncateResponseBody" ->
         /\ DOMAIN r = {"body", "truncated", "originalLength", "type"}
         /\ IsString(r.body)
         /\ r.truncated \in BOOLEAN
         /\ r.originalLength \in Nat
         /\ r.type \in {"json", "binary", "text"}
    [] o = "truncateNetworkEntry" -> IsJsonValue(JObj(r))
    [] o = "truncateHeaders" ->
         \A i \in 1..Len(r) : IsString(r[i].k) /\ r[i].v.t = "str" /\ IsString(r[i].v.s)

\* C12: no operation ends in an error: for every input (malformed JSON, empty
\* strings, long strings, a budget of zero or nearly zero) the call returns a
\* value of its result type.
C12_NoErrorOutcome ==
  pc = "done" => IsResultOf(op, out)

\* malformed, non-empty JSON under a budget of zero came back as a text result
C12_Witness ==
  /\ op = "truncateResponseBody"
  /\ ~arg.base64Encoded
  /\ arg.options = <<0>>
  /\ arg.body # <<>>
  /\ JSONparse(arg.body).st = "error"
  /\ out.type = "text"
  /\ out.truncated

(* ------------------- reading a binary size text back ------------------- *)

StartsWith(v, h) == Len(v) >= Len(h) /\ SubSeq(v, 1, Len(h)) = h

\* Position of the last occurrence of c in v
LastIndexOf(v, c) ==
  LET at == {i \in 1..Len(v) : v[i] = c}
  IN  CHOOSE i \in at : \A j \in at : j <= i

\* The number text of "[Binary data: <number> <unit>]"
SizeNumber(v) == SubSeq(v, Len(BinaryHead) + 1, LastIndexOf(v, " ") - 1)

\* The unit of "[Binary data: <number> <unit>]"
SizeUnit(v) == SubSeq(v, LastIndexOf(v, " ") + 1, Len(v) - 1)

\* Whether txt is an integer written without a leading zero
IsIntegerText(txt) ==
  /\ txt # <<>>
  /\ \A i \in 1..Len(txt) : IsDigit(txt[i])
  /\ (Len(txt) > 1 => txt[1] # "0")

\* Whether txt is a figure with one decimal, such as "4.9"
IsOneDecimal(txt) ==
  /\ Len(txt) >= 3
  /\ txt[Len(txt) - 1] = "."
  /\ IsDigit(txt[Len(txt)])
  /\ IsIntegerText(SubSeq(txt, 1, Len(txt) - 2))

\* The number of tenths a figure with one decimal denotes
Tenths(txt) == 10 * StrToNat(SubSeq(txt, 1, Len(txt) - 2)) + StrToNat(<<txt[Len(txt)]>>)

Abs(x) == IF x < 0 THEN -x ELSE x

\* Whether the figure txt is n / den to one decimal: no other tenth is nearer
IsQuotientToOneDecimal(txt, n, den) ==
  IsOneDecimal(txt) /\ 2 * Abs(10 * n - den * Tenths(txt)) <= den

\* C13: formatBinarySize(n) is "[Binary data: n B]" for n < 1024, a KB figure
\* (n / 1024 to one decimal) for 1024 <= n < 1024 * 1024 and an MB figure
\* (n / (1024 * 1024) to one decimal) otherwise; 500, 5000 and 5000000 give
\* "500 B", "4.9 KB" and "4.8 MB"; the binary branch of truncateResponseBody
\* formats floor(length(body) * 3 / 4).
C13_SizeFormat ==
  /\ op = "formatBinarySize" =>
       LET n == arg.bytes
           num == SizeNumber(out)
           unit == SizeUnit(out)
       IN  /\ StartsWith(out, BinaryHead)
           /\ out[Len(out)] = "]"
           /\ (n < 1024 =>
                 unit = <<"B">> /\ IsIntegerText(num) /\ StrToNat(num) = n)
           /\ ((1024 <= n /\ n < 1024 * 1024) =>
                 unit = <<"K", "B">> /\ IsQuotientToOneDecimal(num, n, 1024))
           /\ (n >= 1024 * 1024 =>
                 unit = <<"M", "B">> /\ IsQuotientToOneDecimal(num, n, 1024 * 1024))
           /\ (n = 500 => out = BinaryHead \o <<"5", "0", "0", " ", "B", "]">>)
           /\ (n = 5000 => out = BinaryHead \o <<"4", ".", "9", " ", "K", "B", "]">>)
           /\ (n = 5000000 => out = BinaryHead \o <<"4", ".", "8", " ", "M", "B", "]">>)
  /\ (op = "truncateResponseBody" /\ out.type = "binary") =>
       LET len == Len(arg.body)
           floor == CHOOSE b \in 0..len : 4 * b <= 3 * len /\ 3 * len < 4 * b + 4
       IN  out.body = formatBinarySize(floor)

\* 5000 bytes were formatted, with the tenth rounded up
C13_Witness ==
  /\ op = "formatBinarySize"
  /\ arg.bytes = 5000
  /\ SizeUnit(out) = <<"K", "B">>
  /\ Tenths(SizeNumber(out)) = 49

\* C14: on the JSON path, if at least one string leaf of the parsed value is
\* longer than the budget, the result has truncated = true.
C14_LongLeafMeansTruncated ==
  (/\ TookJsonPath
   /\ \E x \in StringLeaves(JSONparse(arg.body).v) : Len(x) > ResolveMax(arg.options)) =>
     out.truncated = TRUE

\* C15: for length(s) > b the value is the first `cut` characters of s and
\* then the marker, with cut = max(0, b - length(marker)); so length(value) =
\* max(b, length(marker)): the value is no longer than the budget when
\* b >= length(marker), and is the marker alone, longer than the budget, when
\* b < length(marker).
C15_CutAndLength ==
  (op = "truncateString" /\ Len(arg.str) > arg.maxLength) =>
     LET b == arg.maxLength
         cut == MarkerStart(out.value) - 1
         marker == Len(out.value) - cut
     IN  /\ MarkerStart(out.value) >= 1
         /\ cut = Max(0, b - marker)
         /\ BeforeMarker(out.value) = SubSeq(arg.str, 1, cut)
         /\ Len(out.value) = Max(b, marker)
         /\ (b >= marker => Len(out.value) <= b)
         /\ (Len(out.value) > b => (b < marker /\ cut = 0))

\* a budget below the marker's length: the value is the marker alone and is
\* longer than the string it stands for
C15_Witness ==
  /\ op = "truncateString"
  /\ arg.maxLength > 0
  /\ Len(arg.str) > arg.maxLength
  /\ MarkerStart(out.value) = 1
  /\ Len(out.value) > Len(arg.str)

====
